---- MODULE Spec2Model ----
(***************************************************************************)
(* Model of new_scrape.py: the static scrape (scrape_with_requests), the   *)
(* rendered scrape (scrape_with_selenium, setup_selenium_driver) and the   *)
(* numeric coercion of element text.                                       *)
(*                                                                         *)
(* Strings that the code takes apart (CSS classes, class tokens, element   *)
(* text, tag names) are sequences of one-character strings.                *)
(***************************************************************************)
EXTENDS Integers, Sequences, FiniteSets, TLC

VARIABLES
    \* scrape_with_requests
    pc, resp, doc, columns, css_classes, enable_debug, save_html,
    debug_info, errors, data, keys, idx, elements, attempted, ret,
    \* scrape_with_selenium
    spc, SELENIUM_AVAILABLE, driver, created, open, quits, sdebug, sret,
    \* numeric coercion of one element text
    npc, text, value

reqVars == <<pc, resp, doc, columns, css_classes, enable_debug, save_html,
             debug_info, errors, data, keys, idx, elements, attempted, ret>>
selVars == <<spc, SELENIUM_AVAILABLE, driver, created, open, quits, sdebug, sret>>
numVars == <<npc, text, value>>
vars == <<reqVars, selVars, numVars>>

----------------------------------------------------------------------------
\* Bounds of the model.
MaxCols == 2        \* columns in one request
MaxElems == 2       \* elements in one document
MaxTextLen == 3     \* characters of an enumerated element text

----------------------------------------------------------------------------
\* Generic helpers.

RECURSIVE SeqsUpTo(_, _)
SeqsUpTo(S, n) ==
    IF n = 0 THEN {<<>>}
    ELSE LET shorter == SeqsUpTo(S, n - 1)
         IN  shorter \cup {Append(s, x) : s \in {t \in shorter : Len(t) = n - 1}, x \in S}

Digits == {"0", "1", "2", "3", "4", "5", "6", "7", "8", "9"}
Whitespace == {" "}

DigitVal(c) ==
    CASE c = "0" -> 0 [] c = "1" -> 1 [] c = "2" -> 2 [] c = "3" -> 3 [] c = "4" -> 4
      [] c = "5" -> 5 [] c = "6" -> 6 [] c = "7" -> 7 [] c = "8" -> 8 [] c = "9" -> 9

\* s[i..j], empty when j < i (Python s[i-1:j]).
Slice(s, i, j) == IF j < i THEN <<>> ELSE SubSeq(s, i, j)

\* `sub in s` for strings; also the result of re.search for a literal pattern.
Contains(s, sub) ==
    \E i \in 1..(Len(s) - Len(sub) + 1) : Slice(s, i, i + Len(sub) - 1) = sub

\* str.strip(): leading and trailing whitespace removed.
RECURSIVE LStrip(_)
LStrip(s) == IF s # <<>> /\ Head(s) \in Whitespace THEN LStrip(Tail(s)) ELSE s
RECURSIVE RStrip(_)
RStrip(s) ==
    IF s # <<>> /\ s[Len(s)] \in Whitespace THEN RStrip(Slice(s, 1, Len(s) - 1)) ELSE s
Strip(s) == LStrip(RStrip(s))

\* str.split(sep) for a one-character separator: always at least one part.
RECURSIVE Split(_, _)
Split(s, sep) ==
    IF \A i \in 1..Len(s) : s[i] # sep THEN <<s>>
    ELSE LET i == CHOOSE k \in 1..Len(s) : s[k] = sep /\ \A j \in 1..(k - 1) : s[j] # sep
         IN  <<Slice(s, 1, i - 1)>> \o Split(Slice(s, i + 1, Len(s)), sep)

\* sep.join(parts)
RECURSIVE Join(_, _)
Join(parts, sep) ==
    IF parts = <<>> THEN <<>>
    ELSE IF Len(parts) = 1 THEN parts[1]
    ELSE parts[1] \o <<sep>> \o Join(Tail(parts), sep)

----------------------------------------------------------------------------
\* ExtractedValue: what one element contributes to a column.

NoUrl == [origin |-> "", path |-> ""]
NoneV == [k |-> "none", s |-> <<>>, n |-> 0, d |-> 0, url |-> NoUrl]
TextV(t) == [k |-> "text", s |-> t, n |-> 0, d |-> 0, url |-> NoUrl]
LinkV(u) == [k |-> "link", s |-> <<>>, n |-> 0, d |-> 0, url |-> u]
IntV(n) == [k |-> "int", s |-> <<>>, n |-> n, d |-> 0, url |-> NoUrl]
\* the float n / 10^d, with n not divisible by 10 unless d = 0
FloatV(n, d) == [k |-> "float", s |-> <<>>, n |-> n, d |-> d, url |-> NoUrl]

----------------------------------------------------------------------------
\* Numeric coercion (lines 249-257).

\* Length of the run of digits of s starting at position i.
RECURSIVE DigitRun(_, _)
DigitRun(s, i) == IF i <= Len(s) /\ s[i] \in Digits THEN 1 + DigitRun(s, i + 1) ELSE 0

\* MatchLenAt for the pattern \d+ (no decimal part).
MatchLenDigitsOnly(s, i) == DigitRun(s, i)

\* Length of the match of \d+\.?\d* at position i of s, 0 when there is none.
MatchLenAt(s, i) ==
    LET a == DigitRun(s, i)
    IN  IF a = 0 THEN 0
        ELSE IF i + a <= Len(s) /\ s[i + a] = "."
             THEN a + 1 + DigitRun(s, i + a + 1)
             ELSE a

\* re.findall(r'\d+\.?\d*', text): the non-overlapping matches, left to right.
RECURSIVE FindAllFrom(_, _)
FindAllFrom(s, i) ==
    IF i > Len(s) THEN <<>>
    ELSE LET m == MatchLenAt(s, i)
         IN  IF m = 0 THEN FindAllFrom(s, i + 1)
             ELSE <<Slice(s, i, i + m - 1)>> \o FindAllFrom(s, i + m)
FindAllNumbers(s) == FindAllFrom(s, 1)

\* int(digits)
RECURSIVE ParseInt(_)
ParseInt(ds) ==
    IF ds = <<>> THEN 0 ELSE 10 * ParseInt(Slice(ds, 1, Len(ds) - 1)) + DigitVal(ds[Len(ds)])

RECURSIVE Normalise(_, _)
Normalise(n, d) == IF d > 0 /\ n % 10 = 0 THEN Normalise(n \div 10, d - 1) ELSE FloatV(n, d)

\* float(m) for m of the shape digits '.' digits
ParseFloat(m) ==
    LET parts == Split(m, ".")
    IN  Normalise(ParseInt(parts[1] \o parts[2]), Len(parts[2]))

\* value = float(numbers[0]) if '.' in numbers[0] else int(numbers[0])
ParseNumber(m) == IF Contains(m, <<".">>) THEN ParseFloat(m) ELSE IntV(ParseInt(m))

\* The value appended for an element text when as_numeric is set.
NumericValue(t) ==
    LET numbers == FindAllNumbers(t)
    IN  IF numbers # <<>> THEN ParseNumber(numbers[1]) ELSE NoneV

----------------------------------------------------------------------------
\* The parsed document: its elements in document order.  An element has a tag,
\* the tokens of its class attribute, its text and its href ("absent" also
\* stands for an empty href: `if href:` treats both alike).

Div == <<"d", "i", "v">>
Anchor == <<"a">>

BaseUrl == [origin |-> "https://esc365.escardio.org", path |-> "/x"]
NoHref == [kind |-> "absent", path |-> ""]
RootHref == [kind |-> "rootrel", path |-> "/abstract/123"]
BadHref == [kind |-> "invalid", path |-> "http://["]

Elements ==
    { [tag |-> Div, class |-> << <<"a">> >>, text |-> <<" ", "4", "2">>, href |-> NoHref],
      [tag |-> Anchor, class |-> << <<"a">> >>, text |-> <<"3", ".", "5", " ">>,
       href |-> RootHref],
      [tag |-> Anchor, class |-> << <<"a">>, <<"a", "b">> >>, text |-> <<"x">>,
       href |-> BadHref] }

Documents == SeqsUpTo(Elements, MaxElems)

\* The raw class string of an element.
ClassString(e) == Join(e.class, " ")

\* bs4 matches class_=<string> against each class token and against the whole
\* class string.
ExactClassMatch(e, tag, css_class) ==
    /\ e.tag = tag
    /\ \/ \E i \in 1..Len(e.class) : e.class[i] = css_class
       \/ (e.class # <<>> /\ ClassString(e) = css_class)

\* soup.find_all(tag, class_=css_class)
RECURSIVE FindAllExact(_, _, _)
FindAllExact(d, tag, css_class) ==
    IF d = <<>> THEN <<>>
    ELSE (IF ExactClassMatch(Head(d), tag, css_class) THEN <<Head(d)>> ELSE <<>>)
         \o FindAllExact(Tail(d), tag, css_class)

\* re.compile(part) raises re.error: of the characters used here only an
\* unterminated '[' makes a pattern invalid; every other one is a literal.
ReCompileRaises(part) == \E i \in 1..Len(part) : part[i] = "["

\* bs4 matches class_=<compiled regex> by regex.search on each class token and
\* on the whole class string.
PartialClassMatch(e, tag, part) ==
    /\ e.tag = tag
    /\ \/ \E i \in 1..Len(e.class) : Contains(e.class[i], part)
       \/ (e.class # <<>> /\ Contains(ClassString(e), part))

\* soup.find_all(tag, class_=re.compile(part))
RECURSIVE FindAllPartial(_, _, _)
FindAllPartial(d, tag, part) ==
    IF d = <<>> THEN <<>>
    ELSE (IF PartialClassMatch(Head(d), tag, part) THEN <<Head(d)>> ELSE <<>>)
         \o FindAllPartial(Tail(d), tag, part)

\* Lines 219-223 over the parts still to do: the matches of every non-empty
\* part, appended in turn (duplicates kept).
RECURSIVE PartialMatches(_, _, _)
PartialMatches(d, tag, parts) ==
    IF parts = <<>> THEN <<>>
    ELSE (IF Head(parts) # <<>> THEN FindAllPartial(d, tag, Head(parts)) ELSE <<>>)
         \o PartialMatches(d, tag, Tail(parts))

\* Some non-empty part does not compile: line 222 raises.
PartialRaises(parts) ==
    \E i \in 1..Len(parts) : parts[i] # <<>> /\ ReCompileRaises(parts[i])

\* CSS selectors (soup.select).  The selectors modelled are comma-separated
\* lists of compound selectors tag.class.class...; a compound with an empty
\* class name or a character that is no identifier character is a syntax error.
IdentChars == {"a", "b", "c", "d", "i", "v", "x"}
IsIdent(s) == s # <<>> /\ \A i \in 1..Len(s) : s[i] \in IdentChars

CompoundValid(c) ==
    LET pieces == Split(c, ".")
    IN  /\ c # <<>>
        /\ pieces[1] = <<>> \/ IsIdent(pieces[1])
        /\ \A i \in 2..Len(pieces) : IsIdent(pieces[i])

SelectRaises(selector) ==
    LET cs == Split(selector, ",")
    IN  \E i \in 1..Len(cs) : ~CompoundValid(cs[i])

CompoundMatch(e, c) ==
    LET pieces == Split(c, ".")
    IN  /\ pieces[1] = <<>> \/ e.tag = pieces[1]
        /\ \A i \in 2..Len(pieces) : \E j \in 1..Len(e.class) : e.class[j] = pieces[i]

\* soup.select(selector) for a valid selector: each element once, document order.
RECURSIVE Select(_, _)
Select(d, selector) ==
    IF d = <<>> THEN <<>>
    ELSE LET cs == Split(selector, ",")
         IN  (IF \E i \in 1..Len(cs) : CompoundMatch(Head(d), cs[i]) THEN <<Head(d)>> ELSE <<>>)
             \o Select(Tail(d), selector)

\* css_selector = f"{col['tag']}.{css_class.replace('.', '.')}"
CssSelector(tag, css_class) == tag \o <<".">> \o css_class

\* urljoin(url, href)
UrlJoinRaises(href) == href.kind = "invalid"
UrlJoin(base, href) == [origin |-> base.origin, path |-> href.path]

----------------------------------------------------------------------------
\* The request: columns and css_classes are built together, one entry per
\* configured column (lines 338-360).

Col(name, tag, is_link, as_numeric) ==
    [name |-> name, tag |-> tag, is_link |-> is_link, as_numeric |-> as_numeric]

\* The column configurations exercised: <<column, css_class>>.
ColumnSpecs ==
    { <<Col("A", Div, FALSE, FALSE), <<"a">>>>,               \* exact class match, text
      <<Col("B", Anchor, TRUE, FALSE), <<"a">>>>,             \* exact class match, links
      <<Col("N", Anchor, FALSE, TRUE), <<"a", ".", "b">>>>,   \* partial match, numbers
      <<Col("", Div, FALSE, FALSE), <<"a">>>>,                \* no name
      <<Col("E", Div, FALSE, FALSE), <<>>>>,                  \* no CSS class
      <<Col("R", Div, FALSE, FALSE), <<"a", ".", "[">>>>,     \* a part that is no regex
      <<Col("C", Div, FALSE, FALSE), <<"c">>>>,               \* matches nothing
      <<Col("S", Div, FALSE, FALSE), <<"[">>>>,               \* no valid CSS selector
      <<Col("A", Anchor, FALSE, TRUE), <<"c", ",", "a">>>> }  \* selector list, name reused

Requests == SeqsUpTo(ColumnSpecs, MaxCols)

\* Outcomes of requests.get (line 181) and of writing the HTML file (line 196).
Responses == {"ok", "not_found", "raises"}
StatusCode(r) == IF r = "ok" THEN 200 ELSE 404

\* Trace lines and error entries.
Line(msg, n, s, who) == [msg |-> msg, n |-> n, s |-> s, who |-> who]
Err(msg, who, detail) == [msg |-> msg, who |-> who, detail |-> detail]

NoTable == [none |-> TRUE, keys |-> <<>>, col |-> [k \in {} |-> <<>>]]
Table(ks, cols) == [none |-> FALSE, keys |-> ks, col |-> cols]
Result(df, errs, dbg) == [returned |-> TRUE, df |-> df, errors |-> errs, debug |-> dbg]
NoResult == [returned |-> FALSE, df |-> NoTable, errors |-> <<>>, debug |-> <<>>]

\* debug_page_content(soup, url): the document model has no title, script tag
\* or data attribute, and no class matching card|item|result.
ClassTokens(d) == UNION {{d[i].class[j] : j \in 1..Len(d[i].class)} : i \in 1..Len(d)}
DebugPageContent(d) ==
    << Line("Page Title", 0, <<>>, "No title found"),
       Line("Total unique CSS classes found", Cardinality(ClassTokens(d)), <<>>, ""),
       Line("Card-like elements found", 0, <<>>, ""),
       Line("Script tags found", 0, <<>>, ""),
       Line("Elements with data attributes", 0, <<>>, "") >>

\* data = {col["name"]: [] for col in columns if col["name"]}: the keys in
\* insertion order, each name once.
RECURSIVE DataKeys(_, _)
DataKeys(cols, seen) ==
    IF cols = <<>> THEN <<>>
    ELSE LET nm == Head(cols).name
         IN  IF nm = "" \/ nm \in seen THEN DataKeys(Tail(cols), seen)
             ELSE <<nm>> \o DataKeys(Tail(cols), seen \cup {nm})

\* if not css_class or not col["name"]: continue
Skipped(col, css_class) == css_class = <<>> \/ col.name = ""

\* if not elements and '.' in css_class
Strategy2Due(elems, css_class) == elems = <<>> /\ Contains(css_class, <<".">>)

\* Strategy3Due without its condition.
Strategy3Always(elems) == TRUE

\* if not elements
Strategy3Due(elems) == elems = <<>>

\* Lines 237-261 for one element: the value appended, or the exception message.
ElementRaises(col, e) ==
    col.is_link /\ e.href.kind # "absent" /\ UrlJoinRaises(e.href)
ElementValue(col, e) ==
    IF col.is_link
    THEN IF e.href.kind # "absent" THEN LinkV(UrlJoin(BaseUrl, e.href)) ELSE NoneV
    ELSE LET t == Strip(e.text)
         IN  IF col.as_numeric THEN NumericValue(t) ELSE TextV(t)

\* ExtractedValues appending nothing where the value is None.
RECURSIVE ExtractedValuesSkippingNone(_, _)
ExtractedValuesSkippingNone(col, elems) ==
    IF elems = <<>> THEN <<>>
    ELSE (IF ElementRaises(col, Head(elems)) \/ ElementValue(col, Head(elems)) = NoneV
          THEN <<>> ELSE <<ElementValue(col, Head(elems))>>)
         \o ExtractedValuesSkippingNone(col, Tail(elems))

\* The for loop of lines 236-261: what it appends to data[col["name"]] ...
RECURSIVE ExtractedValues(_, _)
ExtractedValues(col, elems) ==
    IF elems = <<>> THEN <<>>
    ELSE (IF ElementRaises(col, Head(elems)) THEN <<>> ELSE <<ElementValue(col, Head(elems))>>)
         \o ExtractedValues(col, Tail(elems))

\* ... and what it appends to errors.
RECURSIVE ExtractionErrors(_, _)
ExtractionErrors(col, elems) ==
    IF elems = <<>> THEN <<>>
    ELSE (IF ElementRaises(col, Head(elems))
          THEN <<Err("Error extracting from", col.name, "Invalid IPv6 URL")>> ELSE <<>>)
         \o ExtractionErrors(col, Tail(elems))

\* Lines 270-273.
RECURSIVE MaxLength(_, _)
MaxLength(d, ks) ==
    IF ks = <<>> THEN 0
    ELSE LET rest == MaxLength(d, Tail(ks))
         IN  IF Len(d[Head(ks)]) > rest THEN Len(d[Head(ks)]) ELSE rest

\* [None] * n
Nones(n) == [i \in 1..n |-> NoneV]

\* PadColumn without the padding.
PadColumnUnpadded(col_data, max_length) == col_data

\* Lines 279-282 for one column.
PadColumn(col_data, max_length) ==
    IF Len(col_data) < max_length
    THEN col_data \o Nones(max_length - Len(col_data))
    ELSE col_data

\* NoData as `if not data`: only a dict without keys counts as empty.
NoDataWithoutKeys(d) == DOMAIN d = {}

\* if not any(data.values()) or all(len(v) == 0 for v in data.values())
NoData(d) ==
    \/ ~ \E k \in DOMAIN d : d[k] # <<>>
    \/ \A k \in DOMAIN d : Len(d[k]) = 0

----------------------------------------------------------------------------
\* scrape_with_requests(url, columns, css_classes), lines 166-288.

Range(f) == {f[i] : i \in DOMAIN f}
NumColumns == IF Len(columns) < Len(css_classes) THEN Len(columns) ELSE Len(css_classes)
CriticalError(detail) == Err("Critical error", "", detail)

ReqIdle ==
    /\ pc = "idle" /\ resp = "ok" /\ doc = <<>> /\ columns = <<>> /\ css_classes = <<>>
    /\ enable_debug = FALSE /\ save_html = FALSE
    /\ debug_info = <<>> /\ errors = <<>> /\ data = [k \in {} |-> <<>>] /\ keys = <<>>
    /\ idx = 0 /\ elements = <<>> /\ attempted = <<>> /\ ret = NoResult

ReqInit ==
    /\ pc = "start"
    /\ resp \in Responses
    /\ doc \in (IF resp = "ok" THEN Documents ELSE {<<>>})
    /\ \E request \in Requests :
          /\ columns = [i \in 1..Len(request) |-> request[i][1]]
          /\ css_classes = [i \in 1..Len(request) |-> request[i][2]]
    /\ enable_debug \in BOOLEAN
    /\ save_html \in BOOLEAN
    /\ debug_info = <<>> /\ errors = <<>> /\ data = [k \in {} |-> <<>>] /\ keys = <<>>
    /\ idx = 0 /\ elements = <<>> /\ attempted = <<>> /\ ret = NoResult

\* Line 181 raises: the handler of line 287 returns.
FetchRaises ==
    /\ pc = "start" /\ resp = "raises"
    /\ ret' = Result(NoTable, <<CriticalError("request failed")>>, debug_info)
    /\ pc' = "done"
    /\ UNCHANGED <<selVars, numVars>>
    /\ UNCHANGED <<resp, doc, columns, css_classes, enable_debug, save_html,
                   debug_info, errors, data, keys, idx, elements, attempted>>

\* Lines 181-186 with a status other than 200.
FetchHttpError ==
    /\ pc = "start" /\ resp = "not_found"
    /\ debug_info' = << Line("HTTP Status", StatusCode(resp), <<>>, ""),
                        Line("Content Length", Len(doc), <<>>, "") >>
    /\ ret' = Result(NoTable, <<Err("HTTP Error", "", "404")>>, debug_info')
    /\ pc' = "done"
    /\ UNCHANGED <<selVars, numVars>>
    /\ UNCHANGED <<resp, doc, columns, css_classes, enable_debug, save_html,
                   errors, data, keys, idx, elements, attempted>>

\* Lines 181-202 with status 200; `saved` is whether the file of line 196
\* could be written.
FetchOk(saved) ==
    /\ pc = "start" /\ resp = "ok"
    /\ LET fetched == << Line("HTTP Status", StatusCode(resp), <<>>, ""),
                         Line("Content Length", Len(doc), <<>>, "") >>
           inspected == fetched \o (IF enable_debug THEN DebugPageContent(doc) ELSE <<>>)
       IN  IF save_html /\ ~saved
           THEN /\ debug_info' = inspected
                /\ ret' = Result(NoTable, <<CriticalError("cannot write file")>>, debug_info')
                /\ pc' = "done"
                /\ UNCHANGED <<data, keys, errors, idx>>
           ELSE /\ debug_info' = inspected \o
                       (IF save_html THEN <<Line("HTML saved to file", 0, <<>>, "")>> ELSE <<>>)
                /\ keys' = DataKeys(columns, {})
                /\ data' = [k \in Range(keys') |-> <<>>]
                /\ errors' = <<>>
                /\ idx' = 1
                /\ pc' = "loop"
                /\ UNCHANGED ret
    /\ UNCHANGED <<selVars, numVars>>
    /\ UNCHANGED <<resp, doc, columns, css_classes, enable_debug, save_html,
                   elements, attempted>>

AfterStrategy1(elems, css_class) ==
    IF Strategy2Due(elems, css_class) THEN "s2"
    ELSE IF Strategy3Due(elems) THEN "s3" ELSE "extract"

AfterStrategy2(elems) == IF Strategy3Due(elems) THEN "s3" ELSE "extract"

\* Lines 204-206: a column without a name or a CSS class is passed over.
SkipColumn ==
    /\ pc = "loop" /\ idx <= NumColumns
    /\ Skipped(columns[idx], css_classes[idx])
    /\ idx' = idx + 1
    /\ UNCHANGED <<selVars, numVars>>
    /\ UNCHANGED <<pc, resp, doc, columns, css_classes, enable_debug, save_html,
                   debug_info, errors, data, keys, elements, attempted, ret>>

\* Lines 208-215.
Strategy1 ==
    /\ pc = "loop" /\ idx <= NumColumns
    /\ ~Skipped(columns[idx], css_classes[idx])
    /\ LET col == columns[idx]
           css_class == css_classes[idx]
       IN  /\ elements' = FindAllExact(doc, col.tag, css_class)
           /\ debug_info' = debug_info \o
                 << Line("Looking for", 0, CssSelector(col.tag, css_class), ""),
                    Line("Strategy 1 (exact class)", Len(elements'), <<>>, "") >>
           /\ attempted' = <<[col |-> idx, strategy |-> 1, found |-> Len(elements')]>>
           /\ pc' = AfterStrategy1(elements', css_class)
    /\ UNCHANGED <<selVars, numVars>>
    /\ UNCHANGED <<resp, doc, columns, css_classes, enable_debug, save_html,
                   errors, data, keys, idx, ret>>

\* Lines 218-224, every part compiling.
Strategy2 ==
    /\ pc = "s2"
    /\ LET col == columns[idx]
           class_parts == Split(css_classes[idx], ".")
       IN  /\ ~PartialRaises(class_parts)
           /\ elements' = elements \o PartialMatches(doc, col.tag, class_parts)
           /\ debug_info' = debug_info \o
                 <<Line("Strategy 2 (partial class)", Len(elements'), <<>>, "")>>
           /\ attempted' = Append(attempted, [col |-> idx, strategy |-> 2, found |-> Len(elements')])
           /\ pc' = AfterStrategy2(elements')
    /\ UNCHANGED <<selVars, numVars>>
    /\ UNCHANGED <<resp, doc, columns, css_classes, enable_debug, save_html,
                   errors, data, keys, idx, ret>>

\* Lines 218-222 with a part that re.compile rejects: nothing catches the
\* re.error before line 287.
Strategy2Raises ==
    /\ pc = "s2"
    /\ PartialRaises(Split(css_classes[idx], "."))
    /\ attempted' = Append(attempted, [col |-> idx, strategy |-> 2, found |-> 0])
    /\ ret' = Result(NoTable, <<CriticalError("unterminated character set")>>, debug_info)
    /\ pc' = "done"
    /\ UNCHANGED <<selVars, numVars>>
    /\ UNCHANGED <<resp, doc, columns, css_classes, enable_debug, save_html,
                   debug_info, errors, data, keys, idx, elements>>

\* Lines 227-233.
Strategy3 ==
    /\ pc = "s3"
    /\ LET css_selector == CssSelector(columns[idx].tag, css_classes[idx])
       IN  IF SelectRaises(css_selector)
           THEN /\ debug_info' = debug_info \o
                      <<Line("CSS selector failed", 0, css_selector, "")>>
                /\ attempted' = Append(attempted, [col |-> idx, strategy |-> 3, found |-> 0])
                /\ UNCHANGED elements
           ELSE /\ elements' = Select(doc, css_selector)
                /\ debug_info' = debug_info \o
                      <<Line("Strategy 3 (CSS selector)", Len(elements'), <<>>, "")>>
                /\ attempted' = Append(attempted, [col |-> idx, strategy |-> 3, found |-> Len(elements')])
    /\ pc' = "extract"
    /\ UNCHANGED <<selVars, numVars>>
    /\ UNCHANGED <<resp, doc, columns, css_classes, enable_debug, save_html,
                   errors, data, keys, idx, ret>>

\* Lines 236-263: the loop over the matched elements and the final count.
Extract ==
    /\ pc = "extract"
    /\ LET col == columns[idx]
       IN  /\ data' = [data EXCEPT ![col.name] = @ \o ExtractedValues(col, elements)]
           /\ errors' = errors \o ExtractionErrors(col, elements)
           /\ debug_info' = debug_info \o
                 <<Line("Final count for", Len(data'[col.name]), <<>>, col.name)>>
    /\ idx' = idx + 1
    /\ pc' = "loop"
    /\ UNCHANGED <<selVars, numVars>>
    /\ UNCHANGED <<resp, doc, columns, css_classes, enable_debug, save_html,
                   keys, elements, attempted, ret>>

\* Lines 266-267.
ReturnNoData ==
    /\ pc = "loop" /\ idx > NumColumns
    /\ NoData(data)
    /\ ret' = Result(NoTable, <<Err("No data found with the specified selectors", "", "")>>,
                     debug_info)
    /\ pc' = "done"
    /\ UNCHANGED <<selVars, numVars>>
    /\ UNCHANGED <<resp, doc, columns, css_classes, enable_debug, save_html,
                   debug_info, errors, data, keys, idx, elements, attempted>>

\* Lines 270-285.
ReturnTable ==
    /\ pc = "loop" /\ idx > NumColumns
    /\ ~NoData(data)
    /\ LET max_length == MaxLength(data, keys)
       IN  IF max_length = 0
           THEN /\ ret' = Result(NoTable, <<Err("No data extracted", "", "")>>, debug_info)
                /\ UNCHANGED data
           ELSE /\ data' = [k \in DOMAIN data |-> PadColumn(data[k], max_length)]
                /\ ret' = Result(Table(keys, data'), errors, debug_info)
    /\ pc' = "done"
    /\ UNCHANGED <<selVars, numVars>>
    /\ UNCHANGED <<resp, doc, columns, css_classes, enable_debug, save_html,
                   debug_info, errors, keys, idx, elements, attempted>>

ReqNext ==
    \/ FetchRaises
    \/ FetchHttpError
    \/ \E saved \in BOOLEAN : FetchOk(saved)
    \/ SkipColumn
    \/ Strategy1
    \/ Strategy2
    \/ Strategy2Raises
    \/ Strategy3
    \/ Extract
    \/ ReturnNoData
    \/ ReturnTable

----------------------------------------------------------------------------
\* scrape_with_selenium(url, columns, css_classes), lines 290-324, with
\* setup_selenium_driver, lines 113-132.  The page the browser renders is doc.
\* The call starts when no static scrape is under way.

Pending(errs, dbg) == [returned |-> FALSE, df |-> NoTable, errors |-> errs, debug |-> dbg]
SeleniumError(detail) == Err("Selenium error", "", detail)

SelIdle ==
    /\ spc = "idle" /\ SELENIUM_AVAILABLE = FALSE /\ driver = "none"
    /\ created = 0 /\ open = 0 /\ quits = 0 /\ sdebug = <<>> /\ sret = NoResult

SelInit ==
    /\ spc = "start" /\ SELENIUM_AVAILABLE \in BOOLEAN /\ driver = "none"
    /\ created = 0 /\ open = 0 /\ quits = 0 /\ sdebug = <<>> /\ sret = NoResult

\* Lines 294-295.
SeleniumUnavailable ==
    /\ spc = "start" /\ pc \in {"idle", "done"}
    /\ ~SELENIUM_AVAILABLE
    /\ sret' = Result(NoTable, <<Err("Selenium not available", "", "")>>, sdebug)
    /\ spc' = "done"
    /\ UNCHANGED <<SELENIUM_AVAILABLE, driver, created, open, quits, sdebug>>
    /\ UNCHANGED <<reqVars, numVars>>

\* Lines 297-303 and setup_selenium_driver; `started` is whether
\* webdriver.Chrome(options=options) returned a driver.
SetupDriver(started) ==
    /\ spc = "start" /\ pc \in {"idle", "done"}
    /\ SELENIUM_AVAILABLE
    /\ IF started
       THEN /\ driver' = "chrome"
            /\ created' = created + 1
            /\ open' = open + 1
            /\ sdebug' = Append(sdebug, Line("Chrome driver initialized", 0, <<>>, ""))
            /\ spc' = "get"
            /\ UNCHANGED sret
       ELSE /\ sret' = Pending(<<Err("Failed to setup Chrome driver", "", "")>>, sdebug)
            /\ spc' = "finally"
            /\ UNCHANGED <<driver, created, open, sdebug>>
    /\ UNCHANGED <<SELENIUM_AVAILABLE, quits>>
    /\ UNCHANGED <<reqVars, numVars>>

\* Lines 305-306; `loaded` is whether driver.get and driver.title returned.
Navigate(loaded) ==
    /\ spc = "get"
    /\ IF loaded
       THEN /\ sdebug' = Append(sdebug, Line("Page loaded", 0, <<>>, ""))
            /\ spc' = "capture"
            /\ UNCHANGED sret
       ELSE /\ sret' = Pending(<<SeleniumError("navigation failed")>>, sdebug)
            /\ spc' = "finally"
            /\ UNCHANGED sdebug
    /\ UNCHANGED <<SELENIUM_AVAILABLE, driver, created, open, quits>>
    /\ UNCHANGED <<reqVars, numVars>>

\* Lines 309-315; `captured` is whether driver.page_source returned.
Capture(captured) ==
    /\ spc = "capture"
    /\ IF captured
       THEN /\ sdebug' = Append(sdebug, Line("Page source length", Len(doc), <<>>, ""))
            /\ spc' = "extract"
            /\ UNCHANGED sret
       ELSE /\ sret' = Pending(<<SeleniumError("no page source")>>, sdebug)
            /\ spc' = "finally"
            /\ UNCHANGED sdebug
    /\ UNCHANGED <<SELENIUM_AVAILABLE, driver, created, open, quits>>
    /\ UNCHANGED <<reqVars, numVars>>

\* Line 318: the module defines no scrape_with_requests_logic, so the call
\* raises NameError, which line 320 catches.
CallExtractionLogic ==
    /\ spc = "extract"
    /\ sret' = Pending(<<SeleniumError("name 'scrape_with_requests_logic' is not defined")>>,
                       sdebug)
    /\ spc' = "finally"
    /\ UNCHANGED <<SELENIUM_AVAILABLE, driver, created, open, quits, sdebug>>
    /\ UNCHANGED <<reqVars, numVars>>

\* QuitDue with the finally clause left out.
QuitNever(drv) == FALSE

\* if driver: driver.quit()
QuitDue(drv) == drv # "none"

\* Lines 322-324, then the pending return.
Finally ==
    /\ spc = "finally"
    /\ IF QuitDue(driver)
       THEN quits' = quits + 1 /\ open' = open - 1
       ELSE UNCHANGED <<quits, open>>
    /\ sret' = [sret EXCEPT !.returned = TRUE]
    /\ spc' = "done"
    /\ UNCHANGED <<SELENIUM_AVAILABLE, driver, created, sdebug>>
    /\ UNCHANGED <<reqVars, numVars>>

SelNext ==
    \/ SeleniumUnavailable
    \/ \E started \in BOOLEAN : SetupDriver(started)
    \/ \E loaded \in BOOLEAN : Navigate(loaded)
    \/ \E captured \in BOOLEAN : Capture(captured)
    \/ CallExtractionLogic
    \/ Finally

----------------------------------------------------------------------------
\* The numeric coercion of one element text (lines 246-257).

TextChars == {"x", " ", ".", "4", "2"}
Score42 == <<"S", "c", "o", "r", "e", ":", " ", "4", "2", " ", "p", "t", "s">>
Rating35 == <<"R", "a", "t", "i", "n", "g", ":", " ", "3", ".", "5", "/", "5">>
NoDigits == <<"N", "o", " ", "d", "i", "g", "i", "t", "s", " ", "h", "e", "r", "e">>
Texts == SeqsUpTo(TextChars, MaxTextLen) \cup {Score42, Rating35, NoDigits}

NumericColumn == Col("N", Div, FALSE, TRUE)
TextElement(t) == [tag |-> Div, class |-> << <<"a">> >>, text |-> t, href |-> NoHref]

NumIdle == npc = "idle" /\ text = <<>> /\ value = NoneV

NumInit == npc = "start" /\ text \in Texts /\ value = NoneV

Coerce ==
    /\ npc = "start"
    /\ value' = ElementValue(NumericColumn, TextElement(text))
    /\ npc' = "done"
    /\ UNCHANGED text
    /\ UNCHANGED <<reqVars, selVars>>

----------------------------------------------------------------------------
\* Specifications.

\* The inputs of a scrape, with no static scrape under way.
PageInit ==
    /\ pc = "idle" /\ resp = "ok"
    /\ doc \in Documents
    /\ \E request \in Requests :
          /\ columns = [i \in 1..Len(request) |-> request[i][1]]
          /\ css_classes = [i \in 1..Len(request) |-> request[i][2]]
    /\ enable_debug = FALSE /\ save_html = FALSE
    /\ debug_info = <<>> /\ errors = <<>> /\ data = [k \in {} |-> <<>>] /\ keys = <<>>
    /\ idx = 0 /\ elements = <<>> /\ attempted = <<>> /\ ret = NoResult

\* One static scrape.
Init == ReqInit /\ SelIdle /\ NumIdle
Next == ReqNext
Spec == Init /\ [][Next]_vars

\* One rendered scrape.
SeleniumInit == PageInit /\ SelInit /\ NumIdle
SeleniumNext == SelNext
SpecSelenium == SeleniumInit /\ [][SeleniumNext]_vars

\* A static scrape, then a rendered scrape of the same page with the same
\* columns (the user changes the scraping method and scrapes again).
BothInit == ReqInit /\ SelInit /\ NumIdle
BothNext == ReqNext \/ SelNext
SpecBoth == BothInit /\ [][BothNext]_vars

\* The coercion of one text.
NumericInit == ReqIdle /\ SelIdle /\ NumInit
NumericNext == Coerce
SpecNumeric == NumericInit /\ [][NumericNext]_vars

----------------------------------------------------------------------------
\* Properties.

IsPrefix(p, q) == Len(p) <= Len(q) /\ \A i \in 1..Len(p) : q[i] = p[i]

\* The count of the last "Final count for <name>" line of the trace, 0 without one.
FinalCount(name) ==
    LET at == {i \in 1..Len(debug_info) :
                 debug_info[i].msg = "Final count for" /\ debug_info[i].who = name}
    IN  IF at = {} THEN 0
        ELSE debug_info[CHOOSE i \in at : \A j \in at : j <= i].n

\* The step that returns a table (line 285).
ReturnsTable == pc = "loop" /\ pc' = "done" /\ ret'.returned /\ ~ret'.df.none

\* C1: when scrape_with_requests returns a table, every column has the same
\* length, the greatest number of values extracted for any column; a column
\* keeps its extracted values as a prefix, is padded with None only at the
\* end, and is never truncated.
C1_ColumnsPaddedToLongest ==
    [][ReturnsTable =>
          LET longest == CHOOSE m \in {Len(data[k]) : k \in DOMAIN data} :
                             \A k \in DOMAIN data : Len(data[k]) <= m
              table == ret'.df.col
          IN  /\ DOMAIN table = DOMAIN data
              /\ \A k \in DOMAIN data :
                    /\ Len(table[k]) = longest
                    /\ \A i \in 1..Len(data[k]) : table[k][i] = data[k][i]
                    /\ \A i \in (Len(data[k]) + 1)..longest : table[k][i] = NoneV]_vars

\* A table was returned in which a column that extracted at least one value
\* was padded.
C1_Witness ==
    /\ pc = "done" /\ ret.returned /\ ~ret.df.none
    /\ \E k \in DOMAIN ret.df.col :
          /\ FinalCount(k) >= 1
          /\ FinalCount(k) < Len(ret.df.col[k])
          /\ ret.df.col[k][1] # NoneV
          /\ ret.df.col[k][Len(ret.df.col[k])] = NoneV


\* The names a table would have if every column without a name or without a
\* CSS class were left out: the names of the other columns, in order, each once.
RECURSIVE NamesOfKeptColumns(_, _, _)
NamesOfKeptColumns(cols, classes, seen) ==
    IF cols = <<>> \/ classes = <<>> THEN <<>>
    ELSE LET nm == Head(cols).name
         IN  IF nm = "" \/ Head(classes) = <<>> \/ nm \in seen
             THEN NamesOfKeptColumns(Tail(cols), Tail(classes), seen)
             ELSE <<nm>> \o NamesOfKeptColumns(Tail(cols), Tail(classes), seen \cup {nm})

\* C2: the returned table has no column for a ColumnSpec whose name or CSS
\* class is empty; its column names are exactly the names of the other specs,
\* in spec order.
C2_NoColumnForSkippedSpec ==
    (ret.returned /\ ~ret.df.none) =>
        ret.df.keys = NamesOfKeptColumns(columns, css_classes, {})

\* The step that runs the extraction loop of one column (lines 236-263).
ExtractStep == pc = "extract" /\ pc' = "loop"

\* C3: for a column that is not skipped, the values recorded by its
\* extraction loop plus the 'Error extracting from <name>' entries it adds
\* number the elements matched by the strategy that succeeded (duplicates
\* counted); every value comes from one of the matched elements and no other
\* column changes.
C3_EveryMatchedElementAccounted ==
    [][ExtractStep =>
          LET col == columns[idx]
              last == attempted[Len(attempted)]
              newValues == SubSeq(data'[col.name], Len(data[col.name]) + 1,
                                  Len(data'[col.name]))
              newErrors == SubSeq(errors', Len(errors) + 1, Len(errors'))
          IN  /\ last.col = idx
              /\ IsPrefix(data[col.name], data'[col.name])
              /\ IsPrefix(errors, errors')
              /\ Len(newValues) + Len(newErrors) = last.found
              /\ \A i \in 1..Len(newErrors) :
                    newErrors[i].msg = "Error extracting from" /\ newErrors[i].who = col.name
              /\ \A i \in 1..Len(newValues) :
                    \E j \in 1..Len(elements) :
                       /\ ~ElementRaises(col, elements[j])
                       /\ newValues[i] = ElementValue(col, elements[j])
              /\ \A k \in DOMAIN data \ {col.name} : data'[k] = data[k]]_vars

\* The first column matched two elements: one gave a value, the other an
\* error entry.
C3_Witness ==
    /\ pc = "loop" /\ idx = 2
    /\ attempted # <<>> /\ attempted[Len(attempted)].found = 2
    /\ Len(errors) = 1
    /\ Len(data[columns[1].name]) = 1

\* C4: the strategies of a column are attempted in the order 1, 2, 3, a later
\* one only when every earlier one found nothing, and Strategy 2 only for a
\* CSS class containing '.'.
C4_StrategiesInOrder ==
    /\ attempted # <<>> => attempted[1].strategy = 1
    /\ \A i \in 1..Len(attempted) :
          /\ \A j \in 1..(i - 1) :
                /\ attempted[j].strategy < attempted[i].strategy
                /\ attempted[j].found = 0
                /\ attempted[j].col = attempted[i].col
          /\ attempted[i].strategy = 2 =>
                Contains(css_classes[attempted[i].col], <<".">>)
    /\ pc \in {"s2", "s3"} => elements = <<>>
    /\ pc = "s2" => Contains(css_classes[idx], <<".">>)

\* All three strategies were attempted for a column.
C4_Witness ==
    /\ pc = "extract" /\ Len(attempted) = 3
    /\ attempted[3].strategy = 3

\* The extraction loop ran over every column.
ExtractionFinished == pc = "done" /\ idx > NumColumns

NoDataError == Err("No data found with the specified selectors", "", "")

\* C5: if after extraction every column is empty (or there is no column), no
\* table is returned and the error list is the single entry "No data found
\* with the specified selectors"; a table without rows is never returned.
C5_NoDataIsAFailure ==
    /\ (ExtractionFinished /\ \A k \in DOMAIN data : data[k] = <<>>) =>
          /\ ret.returned /\ ret.df.none
          /\ ret.errors = <<NoDataError>>
    /\ (ret.returned /\ ~ret.df.none) =>
          /\ ret.df.keys # <<>>
          /\ \A k \in DOMAIN ret.df.col : Len(ret.df.col[k]) >= 1

\* Extraction finished with columns, all of them empty.
C5_Witness ==
    /\ ExtractionFinished
    /\ keys # <<>>
    /\ \A k \in DOMAIN data : data[k] = <<>>
    /\ ret.df.none

\* C6: a failure confined to one column (an element that cannot be extracted,
\* an invalid selector or selector token, no match) never aborts the
\* extraction of the other columns: once extraction has started, the scrape
\* returns only after the loop has run over every column.
C6_ColumnFailureNeverAborts ==
    (pc = "done" /\ idx >= 1) => idx > NumColumns

\* C7: on a failure path the returned trace holds every trace line and the
\* returned error list every error entry accumulated before the failure.
C7_NothingAccumulatedIsDiscarded ==
    (ret.returned /\ ret.df.none) =>
        /\ IsPrefix(debug_info, ret.debug)
        /\ \A i \in 1..Len(errors) : \E j \in 1..Len(ret.errors) : ret.errors[j] = errors[i]

\* The rendered scrape captured the page (line 315).
PageCaptured ==
    \E i \in 1..Len(sdebug) : sdebug[i].msg = "Page source length"

\* C8: when the driver starts and the page is captured, the rendered scrape
\* returns the table and the error list that the static scrape returns for the
\* same document and columns; in particular it returns a table where the
\* static scrape does.
C8_RenderedEqualsStatic ==
    (spc = "done" /\ PageCaptured /\ pc = "done" /\ ~ret.df.none) =>
        /\ ~sret.df.none
        /\ sret.df.keys = ret.df.keys
        /\ \A k \in DOMAIN ret.df.col : sret.df.col[k] = ret.df.col[k]
        /\ sret.errors = ret.errors

\* C9: a browser session that was created is quit exactly once before
\* scrape_with_selenium returns, on every exit path; none is left open, and
\* none is created when the automation engine is unavailable.
C9_SessionAlwaysTornDown ==
    /\ quits <= created /\ created <= 1
    /\ open = created - quits
    /\ spc = "done" => (sret.returned /\ open = 0 /\ quits = created)
    /\ ~SELENIUM_AVAILABLE => created = 0

\* A session was created, navigation failed, and the call returned.
C9_Witness ==
    /\ spc = "done" /\ created = 1 /\ quits = 1
    /\ sret.errors = <<SeleniumError("navigation failed")>>


AllDigits(s) == \A i \in 1..Len(s) : s[i] \in Digits

\* One or more digits, then an optional decimal point, then zero or more digits.
DigitsPointDigits(s) ==
    \E a \in 1..Len(s) :
       /\ AllDigits(Slice(s, 1, a))
       /\ \/ a = Len(s)
          \/ s[a + 1] = "." /\ AllDigits(Slice(s, a + 2, Len(s)))

\* Optional digits, an optional decimal point, at least one digit.
OptionalDigitsPointDigit(s) ==
    \E a \in 0..(Len(s) - 1) :
       /\ AllDigits(Slice(s, 1, a))
       /\ \/ AllDigits(Slice(s, a + 1, Len(s)))
          \/ a + 2 <= Len(s) /\ s[a + 1] = "." /\ AllDigits(Slice(s, a + 2, Len(s)))

\* The first substring of t of the given shape: the leftmost start, and from
\* it the longest substring, which is what a greedy pattern matches.
FirstSubstring(t, Shape(_)) ==
    LET found == {p \in (1..Len(t)) \X (1..Len(t)) :
                    p[1] <= p[2] /\ Shape(SubSeq(t, p[1], p[2]))}
    IN  IF found = {} THEN <<>>
        ELSE LET p == CHOOSE q \in found :
                         \A r \in found : q[1] < r[1] \/ (q[1] = r[1] /\ q[2] >= r[2])
             IN  SubSeq(t, p[1], p[2])

\* The number a substring stands for: an integer without a decimal point, a
\* floating-point value with one; None for no substring.
NumberOf(m) ==
    IF m = <<>> THEN NoneV
    ELSE IF \E i \in 1..Len(m) : m[i] = "." THEN ParseFloat(m)
    ELSE IntV(ParseInt(m))

\* C10 as stated: the value of a numeric column is the number of the first
\* substring of the trimmed text matching "optional digits, optional decimal
\* point, at least one digit".
C10_FirstNumberAsStated ==
    npc = "done" => value = NumberOf(FirstSubstring(Strip(text), OptionalDigitsPointDigit))

\* C10, amended: the value of a numeric column is the number of the first
\* substring of the trimmed text matching "one or more digits, an optional
\* decimal point, zero or more digits": an integer when the substring has no
\* decimal point, a floating-point value when it has one, None without such a
\* substring; "Score: 42 pts" gives 42, "Rating: 3.5/5" gives 3.5 and
\* "No digits here" gives None.
C10_FirstNumber ==
    npc = "done" =>
        /\ value = NumberOf(FirstSubstring(Strip(text), DigitsPointDigits))
        /\ text = Score42 => value = IntV(42)
        /\ text = Rating35 => value = FloatV(35, 1)
        /\ text = NoDigits => value = NoneV

\* A text whose first number ends in a decimal point was coerced.
C10_Witness ==
    /\ npc = "done"
    /\ text # <<>> /\ text[Len(text)] = "."
    /\ value.k = "float" /\ value.d = 0

====
